---- MODULE Spec2Model ----
(***************************************************************************)
(* A model of the douban-archive-migrator pipeline: the Extractor          *)
(* (douban_crawl.py), the Translator (douban_translate.py), the Resolver   *)
(* (search.py) and the Publisher (import_data.py).  Each script is its own *)
(* program; each has its own specification below, and the variables of the *)
(* other scripts stay idle under it.                                       *)
(*                                                                         *)
(* Text is a sequence of one-character strings, so that strip() and join() *)
(* are computed and not assumed.  Python's None is the empty tuple and a   *)
(* present value v is <<v>>.  A missing key, None and "" are all falsy in  *)
(* the `x.get(k) or ...` chains of the code and are modelled by the empty  *)
(* text.                                                                   *)
(***************************************************************************)
EXTENDS Integers, Sequences, FiniteSets, TLC

VARIABLES
    \* ---- Publisher (import_data.py) ----
    p_dest,       \* which of process_goodreads / process_imdb runs
    p_wait,       \* WAIT_FOR_LOGIN
    p_items,      \* items: the translated records handed to process_*
    p_mapping,    \* mapping: subject_url -> target url
    p_pc,         \* position inside process_* / post_*_review
    p_i,          \* number of items the for loop has taken so far
    p_target,     \* local target_url of the item being posted
    p_comment,    \* local comment of the item being posted
    p_rating,     \* local rating (after conversion) of the item being posted
    p_trace,      \* page operations since the last item was taken (before the
                  \* first item: those of prompt_login)
    p_outcome,    \* how each taken item ended
    p_submits,    \* target url -> number of successful submit clicks in the run
    p_signal,     \* the operator has pressed return at the login prompt
    p_browser,    \* "none", "open", "closed"
    \* ---- click_first_available / fill_first_available on their own ----
    s_fn,         \* "click" or "fill"
    s_selectors,  \* the candidate list passed in
    s_matching,   \* the candidates (by position) the page would accept
    s_result,     \* None before the call, <<[ok, tried]>> after it
    \* ---- rating conversion on its own ----
    r_in,         \* the rating passed in: None or <<n>>
    r_fn,         \* "none", "goodreads" or "imdb": the conversion that ran
    r_out,        \* its result
    \* ---- Resolver (search.py) ----
    v_site,       \* which of build_goodreads_mapping / build_imdb_mapping runs
    v_items,      \* items
    v_existing,   \* existing: the mapping passed in
    v_overwrite,  \* overwrite
    v_pc,         \* "start", "loop", "done"
    v_i,          \* number of items the for loop has taken so far
    v_mapping,    \* mapping: the working copy, returned at the end
    v_log,        \* the search requests and sleeps of the run, with the item's position
    v_first,      \* the mapping the first run of a sequence of runs was given
    \* ---- Extractor (douban_crawl.py), crawl_collect_list ----
    c_parser,     \* "book" or "movie": the parser passed in
    c_pc,         \* "loop" or "done"
    c_page_idx,   \* page_idx of the next turn of the loop
    c_all_items,  \* all_items
    c_log,        \* the page requests (with what came back) and sleeps so far
    \* ---- Translator (douban_translate.py), translate_all ----
    t_items,      \* items: the raw records
    t_pc,         \* "translate", "append", "save", "sleep", "done", "raised"
    t_i,          \* number of items finished
    t_trans,      \* trans: the dict of the item in work, once computed
    t_resp,       \* the reply to the structured call of the item in work
    t_log,        \* the translate_text calls of the fallback path of the item in work
    t_names,      \* the per-name calls made for the record appended last
    t_translated, \* translated
    t_saved,      \* what save_path holds
    \* ---- Extractor (douban_crawl.py), enrich_movie_directors ----
    e_movies,     \* movies: the records, their directors_zh set in place
    e_pc,         \* "loop" or "done"
    e_i,          \* number of movies the for loop has taken so far
    e_log,        \* the detail-page requests and sleeps so far, with the movie's position
    \* ---- Extractor (douban_crawl.py), its parsing functions on their own ----
    f_fn,         \* "split_people", "rating" or "directors": the function to run
    f_arg,        \* its argument
    f_out         \* None before the call, <<result>> after it

pvars == <<p_dest, p_wait, p_items, p_mapping, p_pc, p_i, p_target, p_comment,
           p_rating, p_trace, p_outcome, p_submits, p_signal, p_browser>>
svars == <<s_fn, s_selectors, s_matching, s_result>>
rvars == <<r_in, r_fn, r_out>>
vvars == <<v_site, v_items, v_existing, v_overwrite, v_pc, v_i, v_mapping, v_log, v_first>>
cvars == <<c_parser, c_pc, c_page_idx, c_all_items, c_log>>
tvars == <<t_items, t_pc, t_i, t_trans, t_resp, t_log, t_names, t_translated, t_saved>>
evars == <<e_movies, e_pc, e_i, e_log>>
fvars == <<f_fn, f_arg, f_out>>
vars == <<pvars, svars, rvars, vvars, cvars, tvars, evars, fvars>>

\* what each program leaves alone: the state of the others
NotPub == <<svars, rvars, vvars, cvars, tvars, evars, fvars>>
NotSel == <<pvars, rvars, vvars, cvars, tvars, evars, fvars>>
NotRating == <<pvars, svars, vvars, cvars, tvars, evars, fvars>>
NotResolve == <<pvars, svars, rvars, cvars, tvars, evars, fvars>>
NotCrawl == <<pvars, svars, rvars, vvars, tvars, evars, fvars>>
NotTranslate == <<pvars, svars, rvars, vvars, cvars, evars, fvars>>
NotEnrich == <<pvars, svars, rvars, vvars, cvars, tvars, fvars>>
NotParse == <<pvars, svars, rvars, vvars, cvars, tvars, evars>>

----------------------------------------------------------------------------
\* Shared helpers

None == <<>>
Some(v) == <<v>>

Max(a, b) == IF a >= b THEN a ELSE b
Min(a, b) == IF a <= b THEN a ELSE b

Whitespace == {" "}

\* str.strip(): drop leading and trailing whitespace
RECURSIVE LStrip(_)
LStrip(t) == IF t # <<>> /\ Head(t) \in Whitespace THEN LStrip(Tail(t)) ELSE t
RECURSIVE RStrip(_)
RStrip(t) ==
    IF t # <<>> /\ t[Len(t)] \in Whitespace THEN RStrip(SubSeq(t, 1, Len(t) - 1)) ELSE t
Strip(t) == RStrip(LStrip(t))

\* x or y, on texts
Or(a, b) == IF a # <<>> THEN a ELSE b

\* all sequences over S of length 0..n
SeqsUpTo(S, n) == UNION {[1..k -> S] : k \in 0..n}

----------------------------------------------------------------------------
\* Publisher: import_data.py

\* get_target_url with the lookup defaulting to the subject_url itself
get_target_url_default(mapping, item) ==
    IF item.subject_url = "" THEN None
    ELSE IF item.subject_url \in DOMAIN mapping THEN Some(mapping[item.subject_url])
    ELSE Some(item.subject_url)

\* get_target_url: None unless the record has a subject_url with a mapping entry
get_target_url(mapping, item) ==
    IF item.subject_url # "" /\ item.subject_url \in DOMAIN mapping
    THEN Some(mapping[item.subject_url])
    ELSE None

convert_rating_for_goodreads(rating) ==
    IF rating = None THEN None ELSE Some(Max(1, Min(5, rating[1])))

\* convert_rating_for_imdb without the clamp
convert_rating_for_imdb_unclamped(rating) ==
    IF rating = None THEN None ELSE Some(rating[1] * 2)

convert_rating_for_imdb(rating) ==
    IF rating = None THEN None ELSE Some(Max(1, Min(5, rating[1])) * 2)

\* The loop shared by click_first_available and fill_first_available, from
\* candidate k on: `matching` holds the positions whose page.click / page.fill
\* does not raise.  The result carries the positions tried, in order.
RECURSIVE first_available(_, _, _)
first_available(selectors, matching, k) ==
    IF k > Len(selectors) THEN [ok |-> FALSE, tried |-> <<>>]
    ELSE IF k \in matching THEN [ok |-> TRUE, tried |-> <<k>>]
    ELSE LET rest == first_available(selectors, matching, k + 1)
         IN  [ok |-> rest.ok, tried |-> <<k>> \o rest.tried]

\* click_first_available without the return inside the loop: every candidate
\* is clicked
click_first_available_no_return(selectors, matching) ==
    [ok |-> matching \cap (1..Len(selectors)) # {},
     tried |-> [k \in 1..Len(selectors) |-> k]]

click_first_available(selectors, matching) == first_available(selectors, matching, 1)

fill_first_available(selectors, matching) == first_available(selectors, matching, 1)

\* The candidate lists of the code; {rating} stands for the formatted rating.
GoodreadsEditorSelectors ==
    << "a[href*='/review/new']", "a.writeReviewLink",
       "button[data-analytics-id='new_review']", "a[data-analytics-id='new_review']" >>
ImdbEditorSelectors ==
    << "a[href*='/review/create']", "a[href*='/reviews/write']", "a.ipc-button" >>
GoodreadsRatingSelectors ==
    << "#rating_star_{rating}", "input[name='rating'][value='{rating}']",
       "input[name='review[rating]'][value='{rating}']", "label[for='review_rating_{rating}']" >>
GoodreadsCommentSelectors ==
    << "#review_review_text", "textarea[name='review[review]']",
       "textarea#review_text", "textarea[id*='review']" >>
GoodreadsSubmitSelectors ==
    << "#review_submit", "input[type='submit'][value*='Save']", "button[type='submit']",
       "input[name='commit']", "button[name='commit']" >>
ImdbRatingSelectors ==
    << "button[aria-label='{rating}']", "input[name='rating'][value='{rating}']",
       "span.star-rating-icon" >>
ImdbCommentSelectors == << "textarea", "textarea[name*='review']" >>
ImdbSubmitSelectors == << "button[type='submit']", "input[type='submit']" >>

\* What the page may do with a candidate list: any subset of it matches.
Matchings(selectors) == SUBSET (1..Len(selectors))

\* `if rating:` on an Optional[int]
RatingTruthy(rating) == rating # None /\ rating[1] # 0

Op(step, ok) == [step |-> step, ok |-> ok]

\* ---- the inputs of a run ----
MaxPubItems == 2

SubjectUrls == {"d1", "d2"}
TargetUrls == {"t1", "t2"}

\* Translated records as process_* reads them: subject_url, comment (falling
\* back to comment_en) and rating.
PubCatalogue ==
    { [subject_url |-> "d1", comment |-> <<"o", "k">>, comment_en |-> <<>>, rating |-> Some(7)],
      [subject_url |-> "d2", comment |-> <<" ">>, comment_en |-> <<"e", "n">>, rating |-> None],
      [subject_url |-> "d1", comment |-> <<>>, comment_en |-> <<" ", "e", "n">>, rating |-> None],
      [subject_url |-> "d2", comment |-> <<"o", "k">>, comment_en |-> <<>>, rating |-> Some(0)],
      [subject_url |-> "", comment |-> <<"o", "k">>, comment_en |-> <<>>, rating |-> Some(4)] }

\* Mappings as load_mapping builds them: no empty key, no empty target.
PubMappings ==
    { [u \in {} |-> "t1"], [u \in {"d1"} |-> "t1"], [u \in {"d1", "d2"} |-> IF u = "d1" THEN "t1" ELSE "t2"] }

PubIdle ==
    /\ p_dest = "none" /\ p_wait = FALSE /\ p_items = <<>> /\ p_mapping = [u \in {} |-> "t1"]
    /\ p_pc = "idle" /\ p_i = 0 /\ p_target = "" /\ p_comment = <<>> /\ p_rating = None
    /\ p_trace = <<>> /\ p_outcome = <<>> /\ p_submits = [t \in TargetUrls |-> 0]
    /\ p_signal = FALSE /\ p_browser = "none"

PubInit ==
    /\ p_dest \in {"goodreads", "imdb"}
    /\ p_wait \in BOOLEAN
    /\ p_items \in SeqsUpTo(PubCatalogue, MaxPubItems)
    /\ p_mapping \in PubMappings
    /\ p_pc = "start" /\ p_i = 0 /\ p_target = "" /\ p_comment = <<>> /\ p_rating = None
    /\ p_trace = <<>> /\ p_outcome = <<>> /\ p_submits = [t \in TargetUrls |-> 0]
    /\ p_signal = FALSE /\ p_browser = "none"

PubInputs == <<p_dest, p_wait, p_items, p_mapping>>
PubLocals == <<p_target, p_comment, p_rating>>

\* the except clause of process_* outside the loop: the failure ends the run
Failed_aborting ==
    /\ p_outcome' = Append(p_outcome, "failed")
    /\ p_pc' = "aborted"

\* the except clause of process_*: the pair is over, the loop goes on
Failed ==
    /\ p_outcome' = Append(p_outcome, "failed")
    /\ p_pc' = "loop"

\* process_goodreads, lines 185-189: launch the browser, open a page
process_goodreads_launch ==
    /\ p_pc = "start" /\ p_dest = "goodreads"
    /\ p_browser' = "open"
    /\ p_pc' = "login"
    /\ UNCHANGED <<NotPub, PubInputs, PubLocals, p_i, p_trace, p_outcome, p_submits, p_signal>>

process_imdb_launch ==
    /\ p_pc = "start" /\ p_dest = "imdb"
    /\ p_browser' = "open"
    /\ p_pc' = "login"
    /\ UNCHANGED <<NotPub, PubInputs, PubLocals, p_i, p_trace, p_outcome, p_submits, p_signal>>

\* prompt_login without the wait: it returns whatever WAIT_FOR_LOGIN is
prompt_login_no_wait ==
    /\ p_pc = "login"
    /\ p_pc' = "loop"
    /\ UNCHANGED <<NotPub, PubInputs, PubLocals, p_i, p_trace, p_outcome, p_submits, p_signal, p_browser>>

\* prompt_login up to input(): returns at once when WAIT_FOR_LOGIN is off,
\* else opens the home page (a failure of goto is swallowed) and blocks
prompt_login ==
    /\ p_pc = "login"
    /\ IF p_wait
       THEN /\ \E ok \in BOOLEAN : p_trace' = Append(p_trace, Op("HOME", ok))
            /\ p_pc' = "input"
       ELSE /\ p_pc' = "loop"
            /\ UNCHANGED p_trace
    /\ UNCHANGED <<NotPub, PubInputs, PubLocals, p_i, p_outcome, p_submits, p_signal, p_browser>>

\* input() returns: the operator pressed return
operator_ready ==
    /\ p_pc = "input"
    /\ p_signal' = TRUE
    /\ p_pc' = "loop"
    /\ UNCHANGED <<NotPub, PubInputs, PubLocals, p_i, p_trace, p_outcome, p_submits, p_browser>>

\* process_goodreads, lines 191-200: take the next item and decide
process_goodreads_item ==
    /\ p_pc = "loop" /\ p_dest = "goodreads" /\ p_i < Len(p_items)
    /\ LET item == p_items[p_i + 1]
           target_url == get_target_url(p_mapping, item)
           comment == Strip(Or(item.comment, item.comment_en))
       IN  /\ p_i' = p_i + 1
           /\ p_trace' = <<>>
           /\ IF target_url = None \/ target_url = Some("")
              THEN /\ p_outcome' = Append(p_outcome, "skippedNoMapping")
                   /\ UNCHANGED <<p_pc, PubLocals>>
              ELSE IF comment = <<>>
              THEN /\ p_outcome' = Append(p_outcome, "skippedNoComment")
                   /\ UNCHANGED <<p_pc, PubLocals>>
              ELSE /\ p_target' = target_url[1]
                   /\ p_comment' = comment
                   /\ p_rating' = convert_rating_for_goodreads(item.rating)
                   /\ p_pc' = "gr_open"
                   /\ UNCHANGED p_outcome
    /\ UNCHANGED <<NotPub, PubInputs, p_submits, p_signal, p_browser>>

\* open_goodreads_editor: goto (which may raise), then the editor link is
\* clicked through the candidates; the result of the click is dropped
open_goodreads_editor ==
    /\ p_pc = "gr_open"
    /\ \/ /\ p_trace' = Append(p_trace, Op("NAVIGATE", FALSE))
          /\ Failed
       \/ \E m \in Matchings(GoodreadsEditorSelectors) :
            /\ p_trace' = p_trace \o
                 << Op("NAVIGATE", TRUE),
                    Op("OPEN_EDITOR", click_first_available(GoodreadsEditorSelectors, m).ok) >>
            /\ p_pc' = "gr_rating"
            /\ UNCHANGED p_outcome
    /\ UNCHANGED <<NotPub, PubInputs, PubLocals, p_i, p_submits, p_signal, p_browser>>

\* post_goodreads_review, lines 131-140: the optional rating click
post_goodreads_set_rating ==
    /\ p_pc = "gr_rating"
    /\ IF RatingTruthy(p_rating)
       THEN \E m \in Matchings(GoodreadsRatingSelectors) :
              p_trace' = Append(p_trace,
                  Op("SET_RATING", click_first_available(GoodreadsRatingSelectors, m).ok))
       ELSE UNCHANGED p_trace
    /\ p_pc' = "gr_comment"
    /\ UNCHANGED <<NotPub, PubInputs, PubLocals, p_i, p_outcome, p_submits, p_signal, p_browser>>

\* post_goodreads_review, lines 141-152: fill the comment or raise
post_goodreads_set_comment ==
    /\ p_pc = "gr_comment"
    /\ \E m \in Matchings(GoodreadsCommentSelectors) :
         LET filled == fill_first_available(GoodreadsCommentSelectors, m).ok
         IN  /\ p_trace' = Append(p_trace, Op("SET_COMMENT", filled))
             /\ IF filled
                THEN p_pc' = "gr_submit" /\ UNCHANGED p_outcome
                ELSE Failed
    /\ UNCHANGED <<NotPub, PubInputs, PubLocals, p_i, p_submits, p_signal, p_browser>>

\* post_goodreads_review, lines 153-164: click submit or raise
post_goodreads_submit ==
    /\ p_pc = "gr_submit"
    /\ \E m \in Matchings(GoodreadsSubmitSelectors) :
         LET clicked == click_first_available(GoodreadsSubmitSelectors, m).ok
         IN  /\ p_trace' = Append(p_trace, Op("SUBMIT", clicked))
             /\ IF clicked
                THEN /\ p_outcome' = Append(p_outcome, "posted")
                     /\ p_submits' = [p_submits EXCEPT ![p_target] = @ + 1]
                     /\ p_pc' = "loop"
                ELSE Failed /\ UNCHANGED p_submits
    /\ UNCHANGED <<NotPub, PubInputs, PubLocals, p_i, p_signal, p_browser>>

\* process_goodreads, line 205: the loop is over
process_goodreads_close ==
    /\ p_pc = "loop" /\ p_dest = "goodreads" /\ p_i = Len(p_items)
    /\ p_browser' = "closed"
    /\ p_pc' = "done"
    /\ UNCHANGED <<NotPub, PubInputs, PubLocals, p_i, p_trace, p_outcome, p_submits, p_signal>>

\* process_imdb, lines 215-224
process_imdb_item ==
    /\ p_pc = "loop" /\ p_dest = "imdb" /\ p_i < Len(p_items)
    /\ LET item == p_items[p_i + 1]
           target_url == get_target_url(p_mapping, item)
           comment == Strip(Or(item.comment, item.comment_en))
       IN  /\ p_i' = p_i + 1
           /\ p_trace' = <<>>
           /\ IF target_url = None \/ target_url = Some("")
              THEN /\ p_outcome' = Append(p_outcome, "skippedNoMapping")
                   /\ UNCHANGED <<p_pc, PubLocals>>
              ELSE IF comment = <<>>
              THEN /\ p_outcome' = Append(p_outcome, "skippedNoComment")
                   /\ UNCHANGED <<p_pc, PubLocals>>
              ELSE /\ p_target' = target_url[1]
                   /\ p_comment' = comment
                   /\ p_rating' = convert_rating_for_imdb(item.rating)
                   /\ p_pc' = "imdb_goto"
                   /\ UNCHANGED p_outcome
    /\ UNCHANGED <<NotPub, PubInputs, p_submits, p_signal, p_browser>>

\* post_imdb_review, line 168: goto (which may raise); open_imdb_editor is
\* not called
post_imdb_goto ==
    /\ p_pc = "imdb_goto"
    /\ \/ /\ p_trace' = Append(p_trace, Op("NAVIGATE", FALSE))
          /\ Failed
       \/ /\ p_trace' = Append(p_trace, Op("NAVIGATE", TRUE))
          /\ p_pc' = "imdb_rating"
          /\ UNCHANGED p_outcome
    /\ UNCHANGED <<NotPub, PubInputs, PubLocals, p_i, p_submits, p_signal, p_browser>>

\* post_imdb_review, lines 170-175
post_imdb_set_rating ==
    /\ p_pc = "imdb_rating"
    /\ IF RatingTruthy(p_rating)
       THEN \E m \in Matchings(ImdbRatingSelectors) :
              p_trace' = Append(p_trace,
                  Op("SET_RATING", click_first_available(ImdbRatingSelectors, m).ok))
       ELSE UNCHANGED p_trace
    /\ p_pc' = "imdb_comment"
    /\ UNCHANGED <<NotPub, PubInputs, PubLocals, p_i, p_outcome, p_submits, p_signal, p_browser>>

\* post_imdb_review with the `if not filled: raise` left out
post_imdb_set_comment_no_raise ==
    /\ p_pc = "imdb_comment"
    /\ \E m \in Matchings(ImdbCommentSelectors) :
         p_trace' = Append(p_trace,
             Op("SET_COMMENT", fill_first_available(ImdbCommentSelectors, m).ok))
    /\ p_pc' = "imdb_submit"
    /\ UNCHANGED <<NotPub, PubInputs, PubLocals, p_i, p_outcome, p_submits, p_signal, p_browser>>

\* post_imdb_review, lines 176-178
post_imdb_set_comment ==
    /\ p_pc = "imdb_comment"
    /\ \E m \in Matchings(ImdbCommentSelectors) :
         LET filled == fill_first_available(ImdbCommentSelectors, m).ok
         IN  /\ p_trace' = Append(p_trace, Op("SET_COMMENT", filled))
             /\ IF filled
                THEN p_pc' = "imdb_submit" /\ UNCHANGED p_outcome
                ELSE Failed
    /\ UNCHANGED <<NotPub, PubInputs, PubLocals, p_i, p_submits, p_signal, p_browser>>

\* post_imdb_review, lines 179-181
post_imdb_submit ==
    /\ p_pc = "imdb_submit"
    /\ \E m \in Matchings(ImdbSubmitSelectors) :
         LET clicked == click_first_available(ImdbSubmitSelectors, m).ok
         IN  /\ p_trace' = Append(p_trace, Op("SUBMIT", clicked))
             /\ IF clicked
                THEN /\ p_outcome' = Append(p_outcome, "posted")
                     /\ p_submits' = [p_submits EXCEPT ![p_target] = @ + 1]
                     /\ p_pc' = "loop"
                ELSE Failed /\ UNCHANGED p_submits
    /\ UNCHANGED <<NotPub, PubInputs, PubLocals, p_i, p_signal, p_browser>>

\* process_imdb, line 229
process_imdb_close ==
    /\ p_pc = "loop" /\ p_dest = "imdb" /\ p_i = Len(p_items)
    /\ p_browser' = "closed"
    /\ p_pc' = "done"
    /\ UNCHANGED <<NotPub, PubInputs, PubLocals, p_i, p_trace, p_outcome, p_submits, p_signal>>

PubNext ==
    \/ process_goodreads_launch \/ process_imdb_launch
    \/ prompt_login \/ operator_ready
    \/ process_goodreads_item \/ open_goodreads_editor \/ post_goodreads_set_rating
    \/ post_goodreads_set_comment \/ post_goodreads_submit \/ process_goodreads_close
    \/ process_imdb_item \/ post_imdb_goto \/ post_imdb_set_rating
    \/ post_imdb_set_comment \/ post_imdb_submit \/ process_imdb_close

----------------------------------------------------------------------------
\* click_first_available / fill_first_available called on their own, with each
\* candidate list of the code and every way the page may answer

ClickLists ==
    { GoodreadsEditorSelectors, ImdbEditorSelectors, GoodreadsRatingSelectors,
      GoodreadsSubmitSelectors, ImdbRatingSelectors, ImdbSubmitSelectors }
FillLists == { GoodreadsCommentSelectors, ImdbCommentSelectors }

SelIdle ==
    /\ s_fn = "none" /\ s_selectors = <<>> /\ s_matching = {} /\ s_result = None

SelInit ==
    /\ s_fn \in {"click", "fill"}
    /\ s_selectors \in (IF s_fn = "click" THEN ClickLists ELSE FillLists)
    /\ s_matching \in Matchings(s_selectors)
    /\ s_result = None

call_click_first_available ==
    /\ s_fn = "click" /\ s_result = None
    /\ s_result' = Some(click_first_available(s_selectors, s_matching))
    /\ UNCHANGED <<NotSel, s_fn, s_selectors, s_matching>>

call_fill_first_available ==
    /\ s_fn = "fill" /\ s_result = None
    /\ s_result' = Some(fill_first_available(s_selectors, s_matching))
    /\ UNCHANGED <<NotSel, s_fn, s_selectors, s_matching>>

SelNext == call_click_first_available \/ call_fill_first_available

----------------------------------------------------------------------------
\* The rating conversions called on their own

MaxRatingInput == 25

RatingIdle == r_in = None /\ r_fn = "idle" /\ r_out = None

RatingInit ==
    /\ r_in \in {None} \cup {Some(n) : n \in (0 - MaxRatingInput)..MaxRatingInput}
    /\ r_fn = "none"
    /\ r_out = None

call_convert_rating_for_goodreads ==
    /\ r_fn = "none"
    /\ r_fn' = "goodreads"
    /\ r_out' = convert_rating_for_goodreads(r_in)
    /\ UNCHANGED <<NotRating, r_in>>

call_convert_rating_for_imdb ==
    /\ r_fn = "none"
    /\ r_fn' = "imdb"
    /\ r_out' = convert_rating_for_imdb(r_in)
    /\ UNCHANGED <<NotRating, r_in>>

RatingNext == call_convert_rating_for_goodreads \/ call_convert_rating_for_imdb

----------------------------------------------------------------------------
\* Resolver: search.py

MaxResolveItems == 2

\* Translated records as build_*_mapping reads them.  Only subject_url decides
\* anything; title and author/director go into the query string, which the
\* site answers as it likes.
ResolveCatalogue == { [subject_url |-> u] : u \in {"", "d1", "d2"} }

\* Mappings as load_mapping builds them; the targets are entries a person may
\* have corrected by hand, so no search returns them.
ExistingMappings ==
    { [u \in {} |-> "kept1"], [u \in {"d1"} |-> "kept1"],
      [u \in {"d1", "d2"} |-> IF u = "d1" THEN "kept1" ELSE "kept2"] }

\* What a search request may come back with: no page (fetch_html returned
\* None), a page without a result anchor or with an anchor without href, or
\* the href of the first result anchor, split at its first "?".
SearchResponses ==
    { [html |-> FALSE, anchor |-> FALSE, path |-> "", query |-> ""],
      [html |-> TRUE, anchor |-> FALSE, path |-> "", query |-> ""] }
    \cup { [html |-> TRUE, anchor |-> TRUE, path |-> h, query |-> q] :
             h \in {"/x/1", "https://site/x/2"}, q \in {"", "?ref=1"} }
    \cup { [html |-> TRUE, anchor |-> TRUE, path |-> "", query |-> "?ref=1"] }

StartsWithSlash(path) == path \in {"/x/1"}

\* search_goodreads after the request and the sleep: the href as it is, made
\* absolute when it is relative
search_goodreads(resp) ==
    IF ~resp.html THEN None
    ELSE IF ~resp.anchor THEN None
    ELSE IF StartsWithSlash(resp.path)
         THEN Some("https://www.goodreads.com" \o resp.path \o resp.query)
         ELSE Some(resp.path \o resp.query)

\* search_imdb after the request and the sleep: the href cut at "?", made
\* absolute when it is relative
search_imdb(resp) ==
    IF ~resp.html THEN None
    ELSE IF ~resp.anchor THEN None
    ELSE IF StartsWithSlash(resp.path)
         THEN Some("https://www.imdb.com" \o resp.path)
         ELSE Some(resp.path)

\* the skip test with the flag inverted
already_mapped_inverted(src, mapping, overwrite) == src \in DOMAIN mapping /\ overwrite

\* `if src in mapping and not overwrite: continue`
already_mapped(src, mapping, overwrite) == src \in DOMAIN mapping /\ ~overwrite

\* mapping[src] = target
Store(mapping, src, target) ==
    [u \in DOMAIN mapping \cup {src} |-> IF u = src THEN target ELSE mapping[u]]

Ev(ev, i) == [ev |-> ev, i |-> i]

ResolveIdle ==
    /\ v_site = "none" /\ v_items = <<>> /\ v_existing = [u \in {} |-> "kept1"]
    /\ v_overwrite = FALSE /\ v_pc = "idle" /\ v_i = 0
    /\ v_mapping = [u \in {} |-> "kept1"] /\ v_log = <<>>
    /\ v_first = [u \in {} |-> "kept1"]

ResolveInit ==
    /\ v_site \in {"goodreads", "imdb"}
    /\ v_items \in SeqsUpTo(ResolveCatalogue, MaxResolveItems)
    /\ v_existing \in ExistingMappings
    /\ v_overwrite \in BOOLEAN
    /\ v_pc = "start" /\ v_i = 0
    /\ v_mapping = [u \in {} |-> "kept1"] /\ v_log = <<>>
    /\ v_first = v_existing

ResolveInputs == <<v_site, v_items, v_existing, v_overwrite, v_first>>

\* build_goodreads_mapping, line 110: mapping = dict(existing)
build_goodreads_mapping_copy ==
    /\ v_pc = "start" /\ v_site = "goodreads"
    /\ v_mapping' = v_existing
    /\ v_pc' = "loop"
    /\ UNCHANGED <<NotResolve, ResolveInputs, v_i, v_log>>

\* build_goodreads_mapping with line 121 outside the `if target:`
build_goodreads_mapping_item_unchecked ==
    /\ v_pc = "loop" /\ v_site = "goodreads" /\ v_i < Len(v_items)
    /\ v_i' = v_i + 1
    /\ LET src == v_items[v_i + 1].subject_url
       IN  IF src = "" \/ already_mapped(src, v_mapping, v_overwrite)
           THEN UNCHANGED <<v_mapping, v_log>>
           ELSE \E resp \in SearchResponses :
                  LET target == search_goodreads(resp)
                  IN  /\ v_log' = v_log \o <<Ev("search", v_i + 1), Ev("sleep", v_i + 1)>>
                      /\ v_mapping' = IF target # None
                                      THEN Store(v_mapping, src, target[1])
                                      ELSE Store(v_mapping, src, "")
    /\ UNCHANGED <<NotResolve, ResolveInputs, v_pc>>

\* build_goodreads_mapping, lines 111-121: one turn of the loop, the search
\* request and its sleep included
build_goodreads_mapping_item ==
    /\ v_pc = "loop" /\ v_site = "goodreads" /\ v_i < Len(v_items)
    /\ v_i' = v_i + 1
    /\ LET src == v_items[v_i + 1].subject_url
       IN  IF src = "" \/ already_mapped(src, v_mapping, v_overwrite)
           THEN UNCHANGED <<v_mapping, v_log>>
           ELSE \E resp \in SearchResponses :
                  LET target == search_goodreads(resp)
                  IN  /\ v_log' = v_log \o <<Ev("search", v_i + 1), Ev("sleep", v_i + 1)>>
                      /\ v_mapping' = IF target # None /\ target # Some("")
                                      THEN Store(v_mapping, src, target[1])
                                      ELSE v_mapping
    /\ UNCHANGED <<NotResolve, ResolveInputs, v_pc>>

\* build_goodreads_mapping, line 122: return mapping
build_goodreads_mapping_return ==
    /\ v_pc = "loop" /\ v_site = "goodreads" /\ v_i = Len(v_items)
    /\ v_pc' = "done"
    /\ UNCHANGED <<NotResolve, ResolveInputs, v_i, v_mapping, v_log>>

\* build_imdb_mapping, line 126
build_imdb_mapping_copy ==
    /\ v_pc = "start" /\ v_site = "imdb"
    /\ v_mapping' = v_existing
    /\ v_pc' = "loop"
    /\ UNCHANGED <<NotResolve, ResolveInputs, v_i, v_log>>

\* build_imdb_mapping, lines 127-137
build_imdb_mapping_item ==
    /\ v_pc = "loop" /\ v_site = "imdb" /\ v_i < Len(v_items)
    /\ v_i' = v_i + 1
    /\ LET src == v_items[v_i + 1].subject_url
       IN  IF src = "" \/ already_mapped(src, v_mapping, v_overwrite)
           THEN UNCHANGED <<v_mapping, v_log>>
           ELSE \E resp \in SearchResponses :
                  LET target == search_imdb(resp)
                  IN  /\ v_log' = v_log \o <<Ev("search", v_i + 1), Ev("sleep", v_i + 1)>>
                      /\ v_mapping' = IF target # None /\ target # Some("")
                                      THEN Store(v_mapping, src, target[1])
                                      ELSE v_mapping
    /\ UNCHANGED <<NotResolve, ResolveInputs, v_pc>>

\* build_imdb_mapping, line 138
build_imdb_mapping_return ==
    /\ v_pc = "loop" /\ v_site = "imdb" /\ v_i = Len(v_items)
    /\ v_pc' = "done"
    /\ UNCHANGED <<NotResolve, ResolveInputs, v_i, v_mapping, v_log>>

\* load_mapping of what save_mapping wrote: the rows with a subject_url and
\* a target_url
load_saved_mapping(mapping) ==
    [u \in {u \in DOMAIN mapping : u # "" /\ mapping[u] # ""} |-> mapping[u]]

\* main, lines 150-160: the mapping is saved, and a later run of the script
\* loads it as its existing mapping, with the items and the flag of that run
main_again ==
    /\ v_pc = "done"
    /\ v_existing' = load_saved_mapping(v_mapping)
    /\ v_items' \in SeqsUpTo(ResolveCatalogue, MaxResolveItems)
    /\ v_overwrite' \in BOOLEAN
    /\ v_pc' = "start" /\ v_i' = 0 /\ v_log' = <<>>
    /\ UNCHANGED <<NotResolve, v_site, v_mapping, v_first>>

ResolveNext ==
    \/ build_goodreads_mapping_copy \/ build_goodreads_mapping_item
    \/ build_goodreads_mapping_return
    \/ build_imdb_mapping_copy \/ build_imdb_mapping_item
    \/ build_imdb_mapping_return
    \/ main_again

----------------------------------------------------------------------------
\* Extractor: douban_crawl.py, crawl_collect_list

\* max_pages: 999 in the code, kept small here
MaxPages == 3
\* per_page
PerPage == 15

\* A listing page as the parsers see it: the item containers in document
\* order, each with or without a title anchor and with the anchor's href.
Node(has_a, href) == [has_a |-> has_a, href |-> href]

ListingPages ==
    { <<>>,
      << Node(FALSE, "") >>,
      << Node(TRUE, "d1") >>,
      << Node(TRUE, "d2"), Node(FALSE, "") >>,
      << Node(TRUE, "d1"), Node(TRUE, "d2") >>,
      << Node(TRUE, ""), Node(TRUE, "d1") >> }

\* parse_book_collect_page: one record per container that has a title anchor
RECURSIVE parse_book_collect_page(_)
parse_book_collect_page(page) ==
    IF page = <<>> THEN <<>>
    ELSE IF ~Head(page).has_a THEN parse_book_collect_page(Tail(page))
    ELSE << [category |-> "book", subject_url |-> Head(page).href] >>
         \o parse_book_collect_page(Tail(page))

\* parse_movie_collect_page
RECURSIVE parse_movie_collect_page(_)
parse_movie_collect_page(page) ==
    IF page = <<>> THEN <<>>
    ELSE IF ~Head(page).has_a THEN parse_movie_collect_page(Tail(page))
    ELSE << [category |-> "movie", subject_url |-> Head(page).href] >>
         \o parse_movie_collect_page(Tail(page))

\* parser(html)
Parse(parser, page) ==
    IF parser = "book" THEN parse_book_collect_page(page) ELSE parse_movie_collect_page(page)

Fetch(start, result) == [ev |-> "fetch", start |-> start, result |-> result]
Sleep(start) == [ev |-> "sleep", start |-> start, result |-> "none"]

CrawlIdle ==
    /\ c_parser = "none" /\ c_pc = "idle" /\ c_page_idx = 0
    /\ c_all_items = <<>> /\ c_log = <<>>

CrawlInit ==
    /\ c_parser \in {"book", "movie"}
    /\ c_pc = "loop" /\ c_page_idx = 0
    /\ c_all_items = <<>> /\ c_log = <<>>

\* crawl_collect_list with `continue` in the place of the break on an empty
\* page
crawl_collect_list_page_continue ==
    /\ c_pc = "loop" /\ c_page_idx < MaxPages
    /\ LET start == c_page_idx * PerPage
       IN  \/ /\ c_log' = Append(c_log, Fetch(start, "failed"))
              /\ c_pc' = "done"
              /\ UNCHANGED <<c_page_idx, c_all_items>>
           \/ \E page \in ListingPages :
                LET items == Parse(c_parser, page)
                IN  IF items = <<>>
                    THEN /\ c_log' = Append(c_log, Fetch(start, "empty"))
                         /\ c_page_idx' = c_page_idx + 1
                         /\ UNCHANGED <<c_pc, c_all_items>>
                    ELSE /\ c_log' = c_log \o <<Fetch(start, "items"), Sleep(start)>>
                         /\ c_all_items' = c_all_items \o items
                         /\ c_page_idx' = c_page_idx + 1
                         /\ UNCHANGED c_pc
    /\ UNCHANGED <<NotCrawl, c_parser>>

\* crawl_collect_list, lines 190-203: one turn of the loop.  The request
\* fails (fetch_html returns None), or a page comes back and is parsed.
crawl_collect_list_page ==
    /\ c_pc = "loop" /\ c_page_idx < MaxPages
    /\ LET start == c_page_idx * PerPage
       IN  \/ /\ c_log' = Append(c_log, Fetch(start, "failed"))
              /\ c_pc' = "done"
              /\ UNCHANGED <<c_page_idx, c_all_items>>
           \/ \E page \in ListingPages :
                LET items == Parse(c_parser, page)
                IN  IF items = <<>>
                    THEN /\ c_log' = Append(c_log, Fetch(start, "empty"))
                         /\ c_pc' = "done"
                         /\ UNCHANGED <<c_page_idx, c_all_items>>
                    ELSE /\ c_log' = c_log \o <<Fetch(start, "items"), Sleep(start)>>
                         /\ c_all_items' = c_all_items \o items
                         /\ c_page_idx' = c_page_idx + 1
                         /\ UNCHANGED c_pc
    /\ UNCHANGED <<NotCrawl, c_parser>>

\* crawl_collect_list, lines 190 and 205: range(max_pages) is used up
crawl_collect_list_exhausted ==
    /\ c_pc = "loop" /\ c_page_idx = MaxPages
    /\ c_pc' = "done"
    /\ UNCHANGED <<NotCrawl, c_parser, c_page_idx, c_all_items, c_log>>

CrawlNext == crawl_collect_list_page \/ crawl_collect_list_exhausted

----------------------------------------------------------------------------
\* Extractor: douban_crawl.py, the parsing functions
\*
\* A text is a sequence of characters.  "#1", "#2" stand for Chinese
\* characters of a name; the separators are written by their names.

MaxTextLen == 3

\* the characters of the class of split_people's pattern (line 63):
\* ideographic comma, solidus, comma, full-width comma, full-width
\* semicolon, semicolon
PeopleSeparators ==
    {"ideographic,", "/", ",", "fullwidth,", "fullwidth;", ";"}

\* re.split(pattern, text) for a pattern that is a run of the characters in
\* seps: the pieces between the runs, empty ones at the ends included
RECURSIVE re_split(_, _, _)
re_split(text, seps, part) ==
    IF text = <<>> THEN <<part>>
    ELSE IF Head(text) \in seps
         THEN IF Len(text) > 1 /\ text[2] \in seps
              THEN re_split(Tail(text), seps, part)
              ELSE <<part>> \o re_split(Tail(text), seps, <<>>)
         ELSE re_split(Tail(text), seps, Append(part, Head(text)))

\* [p.strip() for p in parts if p.strip()]
RECURSIVE StrippedNonEmpty(_)
StrippedNonEmpty(parts) ==
    IF parts = <<>> THEN <<>>
    ELSE (IF Strip(Head(parts)) = <<>> THEN <<>> ELSE <<Strip(Head(parts))>>)
         \o StrippedNonEmpty(Tail(parts))

\* split_people
split_people(text) ==
    IF text = <<>> THEN <<>>
    ELSE StrippedNonEmpty(re_split(text, PeopleSeparators, <<>>))

\* the texts split_people is given: every text up to MaxTextLen over a name
\* character, the blank and the separators of either set, and the text of
\* the spec's example, "#1 / #2<full-width comma>#3"
PeopleAlphabet == {"#1", " ", "fullwidth/"} \cup PeopleSeparators
PeopleTexts ==
    SeqsUpTo(PeopleAlphabet, MaxTextLen)
    \cup { <<"#1", " ", "/", " ", "#2", "fullwidth,", "#3">> }

\* ---- rating extraction ----
\*
\* A class token is a sequence of pieces: "rating" and "-t" stand for these
\* letters, "4" and "5" are digits, "x" is any other character.

MaxNested == 2

Digits == {"4", "5"}
DigitValue(d) == IF d = "4" THEN 4 ELSE 5

\* the digits of tok from position i on, as far as they go
RECURSIVE DigitRun(_, _)
DigitRun(tok, i) ==
    IF i <= Len(tok) /\ tok[i] \in Digits THEN <<tok[i]>> \o DigitRun(tok, i + 1) ELSE <<>>

\* int(m.group(1))
RECURSIVE int(_)
int(digits) ==
    IF digits = <<>> THEN 0
    ELSE int(SubSeq(digits, 1, Len(digits) - 1)) * 10 + DigitValue(digits[Len(digits)])

\* re.search(r"rating(\d+)-t", c) matches at position i of the token
MatchesAt(tok, i) ==
    /\ tok[i] = "rating"
    /\ DigitRun(tok, i + 1) # <<>>
    /\ i + Len(DigitRun(tok, i + 1)) + 1 <= Len(tok)
    /\ tok[i + Len(DigitRun(tok, i + 1)) + 1] = "-t"

\* re.search on one token, then int of the group: None without a match
rating_in_token(tok) ==
    IF \E i \in 1..Len(tok) : MatchesAt(tok, i)
    THEN LET i == CHOOSE i \in 1..Len(tok) :
                    MatchesAt(tok, i) /\ \A j \in 1..(i - 1) : ~MatchesAt(tok, j)
         IN  Some(int(DigitRun(tok, i + 1)))
    ELSE None

\* extract_rating_from_classes: the first token that matches decides
RECURSIVE extract_rating_from_classes(_)
extract_rating_from_classes(classes) ==
    IF classes = <<>> THEN None
    ELSE IF rating_in_token(Head(classes)) # None THEN rating_in_token(Head(classes))
    ELSE extract_rating_from_classes(Tail(classes))

\* [class*="rating"]: the class attribute holds the letters "rating"
RatingBearing(classes) ==
    \E k \in 1..Len(classes) : \E i \in 1..Len(classes[k]) : classes[k][i] = "rating"

\* it.select_one('[class*="rating"]'): the first such element below the
\* item in document order, None if there is none
RECURSIVE select_one_rating(_)
select_one_rating(elements) ==
    IF elements = <<>> THEN None
    ELSE IF RatingBearing(Head(elements)) THEN Some(Head(elements))
    ELSE select_one_rating(Tail(elements))

\* parse_book_collect_page, lines 107-112 (parse_movie_collect_page, lines
\* 155-160): the rating of one item
item_rating(item) ==
    LET rating_span == select_one_rating(item.inner)
        rating == IF rating_span # None
                  THEN extract_rating_from_classes(rating_span[1]) ELSE None
    IN  IF rating = None THEN extract_rating_from_classes(item.own) ELSE rating

\* class lists an element may carry
ClassLists ==
    { <<>>,
      << <<"x">> >>,
      << <<"rating", "4", "-t">> >>,
      << <<"x">>, <<"rating", "4", "5", "-t">> >>,
      << <<"rating", "-t">>, <<"x", "rating", "5", "-t", "x">> >>,
      << <<"rating", "5", "-t">>, <<"rating", "4", "-t">> >>,
      << <<"rating", "x">> >> }

\* An item of a listing page: the class lists of the elements below it, in
\* document order, each element lying inside the one before it; and the
\* item's own class list.
ListingItems ==
    { [inner |-> inner, own |-> own] :
        inner \in SeqsUpTo(ClassLists, MaxNested), own \in ClassLists }

\* ---- director extraction ----
\*
\* A detail page as extract_directors_from_detail sees it: the texts of the
\* anchors with rel="v:directedBy", and the text of the #info block (None
\* without such a block).  In the info text "label:" stands for the director
\* label with its colon, "stop1" and "stop2" for two of the stop tokens.
Page(directed_by, info) == [directed_by |-> directed_by, info |-> info]

StopTokens == {"stop1", "stop2"}

\* the position after re.search's match of the label and the blanks behind
\* it; 0 without a match
RECURSIVE SkipBlanks(_, _)
SkipBlanks(text, i) ==
    IF i <= Len(text) /\ text[i] \in Whitespace THEN SkipBlanks(text, i + 1) ELSE i

LabelEnd(text) ==
    IF \E i \in 1..Len(text) : text[i] = "label:"
    THEN SkipBlanks(text, 1 + CHOOSE i \in 1..Len(text) :
                              text[i] = "label:" /\ \A j \in 1..(i - 1) : text[j] # "label:")
    ELSE 0

\* rest.find(tok), counted from 0; -1 when tok is not in rest
Find(rest, tok) ==
    IF \E i \in 1..Len(rest) : rest[i] = tok
    THEN (CHOOSE i \in 1..Len(rest) : rest[i] = tok /\ \A j \in 1..(i - 1) : rest[j] # tok) - 1
    ELSE -1

\* lines 82-86: the smallest index of a stop token in rest, len(rest) if
\* there is none
StopIdx(rest) ==
    LET found == { Find(rest, tok) : tok \in StopTokens } \ {-1}
    IN  IF found = {} THEN Len(rest)
        ELSE CHOOSE i \in found : \A j \in found : i <= j

\* segment.split("/", 1)[0]
BeforeSlash(segment) ==
    IF Find(segment, "/") = -1 THEN segment ELSE SubSeq(segment, 1, Find(segment, "/"))

\* extract_directors_from_detail: the tagged anchors if there are any, else
\* the names after the label of the info block, else []
extract_directors_from_detail(page) ==
    IF page.directed_by # <<>> THEN page.directed_by
    ELSE IF page.info = None THEN <<>>
    ELSE IF LabelEnd(page.info[1]) = 0 THEN <<>>
    ELSE LET rest == SubSeq(page.info[1], LabelEnd(page.info[1]), Len(page.info[1]))
             segment == BeforeSlash(SubSeq(rest, 1, StopIdx(rest)))
         IN  split_people(segment)

\* the info texts: every text up to MaxTextLen, the spec's example
\* ("label: #1 stop1: #2"), one with the later stop token of the list first,
\* one with two names around a slash
InfoAlphabet == {"label:", " ", "#1", "stop1", "stop2", "/", "fullwidth/", ","}
InfoTexts ==
    SeqsUpTo(InfoAlphabet, MaxTextLen)
    \cup { <<"label:", " ", "#1", " ", "stop1", ":", " ", "#2">>,
           <<"label:", "#1", "stop2", "#2", "stop1">>,
           <<"label:", "#1", " ", "/", " ", "#2", "stop1">> }

AnchorTexts == { <<>>, << <<"#3">> >>, << <<"#3">>, <<>> >> }

ExtractPages ==
    { Page(directed_by, info) :
        directed_by \in AnchorTexts,
        info \in {None} \cup { Some(text) : text \in InfoTexts } }

Arg(fn, arg) == [fn |-> fn, arg |-> arg]

ParseInputs ==
    { Arg("split_people", text) : text \in PeopleTexts }
    \cup { Arg("rating", item) : item \in ListingItems }
    \cup { Arg("directors", page) : page \in ExtractPages }

ParseIdle == f_fn = "none" /\ f_arg = <<>> /\ f_out = None

ParseInit ==
    /\ \E input \in ParseInputs : f_fn = input.fn /\ f_arg = input.arg
    /\ f_out = None

call_split_people ==
    /\ f_fn = "split_people" /\ f_out = None
    /\ f_out' = Some(split_people(f_arg))
    /\ UNCHANGED <<NotParse, f_fn, f_arg>>

call_item_rating ==
    /\ f_fn = "rating" /\ f_out = None
    /\ f_out' = Some(item_rating(f_arg))
    /\ UNCHANGED <<NotParse, f_fn, f_arg>>

call_extract_directors_from_detail ==
    /\ f_fn = "directors" /\ f_out = None
    /\ f_out' = Some(extract_directors_from_detail(f_arg))
    /\ UNCHANGED <<NotParse, f_fn, f_arg>>

ParseNext == call_split_people \/ call_item_rating \/ call_extract_directors_from_detail

----------------------------------------------------------------------------
\* Extractor: douban_crawl.py, enrich_movie_directors

MaxMovies == 2

\* The movie records as parse_movie_collect_page leaves them: directors_zh
\* empty, subject_url the anchor's href (which may be empty).
MovieCatalogue ==
    { [subject_url |-> u, directors_zh |-> <<>>] : u \in {"", "d1", "d2"} }

\* the detail pages a request may bring back: one without director, one
\* with a tagged anchor, one with the names in the info block only
DetailPages ==
    { Page(<<>>, None),
      Page(<< <<"#3">> >>, Some(<<"label:", "#7">>)),
      Page(<<>>, Some(<<"label:", "#3", ",", "#7">>)) }

DetailFetch(i, ok) == [ev |-> "fetch", i |-> i, ok |-> ok]
DetailSleep(i) == [ev |-> "sleep", i |-> i, ok |-> TRUE]

EnrichIdle ==
    /\ e_movies = <<>> /\ e_pc = "idle" /\ e_i = 0 /\ e_log = <<>>

EnrichInit ==
    /\ e_movies \in SeqsUpTo(MovieCatalogue, MaxMovies)
    /\ e_pc = "loop" /\ e_i = 0 /\ e_log = <<>>

\* enrich_movie_directors, lines 212-221: one turn of the loop.  A movie
\* without url is passed over; the request fails (fetch_html returns None)
\* and the turn ends there; or the page comes back, the directors are set
\* and the loop sleeps.
enrich_movie_directors_item ==
    /\ e_pc = "loop" /\ e_i < Len(e_movies)
    /\ LET k == e_i + 1
           url == e_movies[k].subject_url
       IN  IF url = ""
           THEN UNCHANGED <<e_movies, e_log>>
           ELSE \/ /\ e_log' = Append(e_log, DetailFetch(k, FALSE))
                   /\ UNCHANGED e_movies
                \/ \E page \in DetailPages :
                     /\ e_movies' = [e_movies EXCEPT ![k].directors_zh =
                                       extract_directors_from_detail(page)]
                     /\ e_log' = e_log \o <<DetailFetch(k, TRUE), DetailSleep(k)>>
    /\ e_i' = e_i + 1
    /\ UNCHANGED <<NotEnrich, e_pc>>

\* enrich_movie_directors, lines 210-211 and 222: return movies, at once for
\* an empty list
enrich_movie_directors_return ==
    /\ e_pc = "loop" /\ e_i = Len(e_movies)
    /\ e_pc' = "done"
    /\ UNCHANGED <<NotEnrich, e_movies, e_i, e_log>>

EnrichNext == enrich_movie_directors_item \/ enrich_movie_directors_return

----------------------------------------------------------------------------
\* Translator: douban_translate.py
\*
\* In a text, "#1", "#2", ... stand for single Chinese characters; capital
\* letters are Latin letters.

MaxTransItems == 2

LatinLetters == {"A", "C", "E", "N", "T"}
TitleDelimiters == {"/", "|", "fullwidth/"}

\* The raw records a run may meet, in a ring; a run translates a stretch of it.
\* A book with neither comment nor authors, whose title carries a Latin part
\* after a pipe; a movie whose title carries a
\* Latin alias and whose comment is blank; a book with comment and two
\* authors; a movie with comment and no director.
RawRing ==
    << [category |-> "book", title_zh |-> <<"#1", "|", "A">>, comment_zh |-> <<>>,
        authors_zh |-> <<>>, directors_zh |-> <<>>,
        rating |-> None, subject_url |-> "d1"],
       [category |-> "movie", title_zh |-> <<"#2", " ", "/", " ", "A">>, comment_zh |-> <<" ">>,
        authors_zh |-> <<>>, directors_zh |-> << <<"#3">> >>,
        rating |-> Some(5), subject_url |-> "d2"],
       [category |-> "book", title_zh |-> <<" ", "#4">>, comment_zh |-> <<"#5", " ">>,
        authors_zh |-> << <<"#6">>, <<" ">>, <<"#7">> >>, directors_zh |-> <<>>,
        rating |-> Some(4), subject_url |-> "d3"],
       [category |-> "movie", title_zh |-> <<"#8">>, comment_zh |-> <<"#9">>,
        authors_zh |-> <<>>, directors_zh |-> <<>>,
        rating |-> None, subject_url |-> "d4"] >>

RingAt(k) == RawRing[((k - 1) % Len(RawRing)) + 1]
RawLists ==
    { [j \in 1..n |-> RingAt(first + j - 1)] : first \in 1..Len(RawRing), n \in 0..MaxTransItems }

\* ---- what the completion service may answer ----

\* a JSON value: a missing key, null (or another falsy value), a string, or a
\* truthy value that is no string (a number, say)
JAbsent == [j |-> "absent", s |-> <<>>]
JNull == [j |-> "null", s |-> <<>>]
JStr(t) == [j |-> "str", s |-> t]
JNum == [j |-> "num", s |-> <<>>]

\* the people_en value: a missing key, a value that is no list, or a list
PAbsent == [j |-> "absent", items |-> <<>>]
PNotList == [j |-> "num", items |-> <<>>]
PList(items) == [j |-> "list", items |-> items]

\* The reply to the structured call: the call raises; the message has no
\* content; the content is no JSON; it is JSON but no object; or it is an
\* object.
Reply(kind, title_en, comment_en, people_en) ==
    [kind |-> kind, title_en |-> title_en, comment_en |-> comment_en, people_en |-> people_en]

StructuredReplies ==
    { Reply(k, JAbsent, JAbsent, PAbsent) : k \in {"error", "no_content", "not_json", "not_object"} }
    \cup { Reply("object", t, c, p) :
             t \in {JAbsent, JStr(<<" ", "T">>), JNum},
             c \in {JAbsent, JStr(<<"C", " ">>), JNum},
             p \in {PAbsent, PNotList, PList(<<>>), PList(<<JStr(<<"N", " ">>)>>),
                    PList(<<JNum, JStr(<<>>)>>)} }
    \cup { Reply("object", JNull, JNull, PList(<<>>)) }

\* The reply to a free-text call (translate_text, or one name of
\* translate_people_list): the call raises, the message has no content, or
\* it has a text.
TextReplies ==
    { [kind |-> "error", text |-> <<>>], [kind |-> "no_content", text |-> <<>>],
      [kind |-> "text", text |-> <<" ", "E", " ">>] }

\* ---- results of calls that may raise ----
Raise == [raised |-> TRUE, value |-> <<>>]
Return(v) == [raised |-> FALSE, value |-> v]

\* translate_text: "" without a call for a blank text, else the stripped
\* content of the reply
translate_text(text, reply) ==
    IF Strip(text) = <<>> THEN Return(<<>>)
    ELSE IF reply.kind = "text" THEN Return(Strip(reply.text))
    ELSE Raise

\* (data.get(key) or "").strip()
StrField(v) ==
    IF v.j \in {"absent", "null"} THEN Return(<<>>)
    ELSE IF v.j = "str" THEN Return(Strip(v.s))
    ELSE Raise

\* [(p or "").strip() for p in raw_people_en if isinstance(p, str)]
RECURSIVE StrippedStrings(_)
StrippedStrings(items) ==
    IF items = <<>> THEN <<>>
    ELSE IF Head(items).j = "str"
         THEN <<Strip(Head(items).s)>> \o StrippedStrings(Tail(items))
         ELSE StrippedStrings(Tail(items))

Dict(title_en, comment_en, people_en) ==
    [title_en |-> title_en, comment_en |-> comment_en, people_en |-> people_en]

\* translate_title_and_comment, lines 121-134: the body of the try
structured(reply) ==
    IF reply.kind # "object" THEN Raise
    ELSE LET title_en == StrField(reply.title_en)
             comment_en == StrField(reply.comment_en)
         IN  IF title_en.raised \/ comment_en.raised THEN Raise
             ELSE Return(Dict(title_en.value, comment_en.value,
                              IF reply.people_en.j = "list"
                              THEN StrippedStrings(reply.people_en.items)
                              ELSE <<>>))

\* translate_title_and_comment, lines 135-139: the except clause; it is not
\* itself guarded, so a translate_text that raises leaves the function
fallback(title_zh, comment_zh, title_reply, comment_reply) ==
    LET title_en == translate_text(title_zh, title_reply)
        comment_en == translate_text(comment_zh, comment_reply)
    IN  IF title_en.raised THEN Raise
        ELSE IF comment_en.raised THEN Raise
        ELSE Return(Dict(title_en.value, comment_en.value, <<>>))

\* the translate_text calls the except clause gets to make, in order: whether
\* a request went out (none does for a blank text) and whether the call returned
Call(name, text, reply) ==
    [call |-> name, sent |-> Strip(text) # <<>>, ok |-> ~translate_text(text, reply).raised]

FallbackCalls(title_zh, comment_zh, title_reply, comment_reply) ==
    IF translate_text(title_zh, title_reply).raised
    THEN << Call("title", title_zh, title_reply) >>
    ELSE << Call("title", title_zh, title_reply), Call("comment", comment_zh, comment_reply) >>

translate_title_and_comment(title_zh, comment_zh, reply, title_reply, comment_reply) ==
    IF ~structured(reply).raised THEN structured(reply)
    ELSE fallback(title_zh, comment_zh, title_reply, comment_reply)

\* translate_all, lines 160-164, with the try left out
translate_all_try_unguarded(result) == result

\* translate_all, lines 160-164: a raise becomes a dict of empty strings
\* (its missing people_en reads as no list, which line 170 turns into [])
translate_all_try(result) ==
    IF result.raised THEN Return(Dict(<<>>, <<>>, <<>>)) ELSE result

\* re.split(r"[/|]", raw_title), with the full-width slash among the delimiters
RECURSIVE SplitTitle(_, _)
SplitTitle(text, part) ==
    IF text = <<>> THEN <<part>>
    ELSE IF Head(text) \in TitleDelimiters THEN <<part>> \o SplitTitle(Tail(text), <<>>)
    ELSE SplitTitle(Tail(text), Append(part, Head(text)))

HasLatin(t) == \E k \in 1..Len(t) : t[k] \in LatinLetters

\* the first of the parts that has a Latin letter, stripped
RECURSIVE FirstLatinPart(_)
FirstLatinPart(parts) ==
    IF parts = <<>> THEN None
    ELSE IF Strip(Head(parts)) # <<>> /\ HasLatin(Strip(Head(parts)))
         THEN Some(Strip(Head(parts)))
         ELSE FirstLatinPart(Tail(parts))

detect_english_from_title(raw_title) ==
    IF raw_title = <<>> THEN None ELSE FirstLatinPart(SplitTitle(raw_title, <<>>))

\* the names translate_people_list calls the service for: the stripped,
\* non-blank ones
RECURSIVE NonBlankNames(_)
NonBlankNames(people) ==
    IF people = <<>> THEN <<>>
    ELSE IF Strip(Head(people)) = <<>> THEN NonBlankNames(Tail(people))
    ELSE <<Strip(Head(people))>> \o NonBlankNames(Tail(people))

\* translate_people_list with the except clause yielding "" for the name
translate_people_list_blank_on_error(people, replies) ==
    LET names == NonBlankNames(people)
    IN  [k \in 1..Len(names) |->
           IF replies[k].kind = "text" THEN Strip(replies[k].text) ELSE <<>>]

\* translate_people_list: each non-blank name is sent on its own; a raise
\* (or a reply without content) leaves the name as it is
translate_people_list(people, replies) ==
    LET names == NonBlankNames(people)
    IN  [k \in 1..Len(names) |->
           IF replies[k].kind = "text" THEN Strip(replies[k].text) ELSE names[k]]

\* " / ".join(names)
RECURSIVE Join(_)
Join(names) ==
    IF names = <<>> THEN <<>>
    ELSE IF Len(names) = 1 THEN names[1]
    ELSE names[1] \o <<" ", "/", " ">> \o Join(Tail(names))

PeopleOf(item) ==
    IF item.category = "book" THEN item.authors_zh
    ELSE IF item.category = "movie" THEN item.directors_zh
    ELSE <<>>

\* translate_all, line 171, with the rating put on the destination's scale
rating_en_doubled(item) ==
    IF item.rating # None /\ item.rating[1] \in Int THEN Some(item.rating[1] * 2) ELSE None

\* translate_all, line 171: item.get("rating") if it is an int, else None
rating_en(item) ==
    IF item.rating # None /\ item.rating[1] \in Int THEN item.rating ELSE None

\* translate_all, line 156: item.get("subject_url") or ""
source_url(item) == item.subject_url

NoDict == Return(Dict(<<>>, <<>>, <<>>))
NoReply == Reply("none", JAbsent, JAbsent, PAbsent)

TransIdle ==
    /\ t_items = <<>> /\ t_pc = "idle" /\ t_i = 0 /\ t_trans = NoDict /\ t_resp = NoReply
    /\ t_log = <<>> /\ t_names = <<>> /\ t_translated = <<>> /\ t_saved = <<>>

TransInit ==
    /\ t_items \in RawLists
    /\ t_pc = "translate" /\ t_i = 0 /\ t_trans = NoDict /\ t_resp = NoReply
    /\ t_log = <<>> /\ t_names = <<>> /\ t_translated = <<>> /\ t_saved = <<>>

\* translate_all, lines 146-164: read the item and call
\* translate_title_and_comment inside the try
translate_all_translate ==
    /\ t_pc = "translate" /\ t_i < Len(t_items)
    /\ LET item == t_items[t_i + 1]
           title_zh == Strip(item.title_zh)
           comment_zh == Strip(item.comment_zh)
       IN  \E reply \in StructuredReplies, title_reply \in TextReplies, comment_reply \in TextReplies :
             LET trans == translate_all_try(
                     translate_title_and_comment(title_zh, comment_zh, reply,
                                                 title_reply, comment_reply))
             IN  /\ t_resp' = reply
                 /\ t_log' = IF structured(reply).raised
                             THEN FallbackCalls(title_zh, comment_zh, title_reply, comment_reply)
                             ELSE <<>>
                 /\ t_trans' = trans
                 /\ t_pc' = IF trans.raised THEN "raised" ELSE "append"
    /\ UNCHANGED <<NotTranslate, t_items, t_i, t_names, t_translated, t_saved>>

\* translate_all, lines 166-187: build the record, the per-name calls
\* included when people_en is empty, and append it
translate_all_append ==
    /\ t_pc = "append"
    /\ LET item == t_items[t_i + 1]
           category == item.category
           people == PeopleOf(item)
           detected_en == IF category = "movie"
                          THEN detect_english_from_title(Strip(item.title_zh))
                          ELSE None
           trans == t_trans.value
           asked == IF trans.people_en # <<>> THEN <<>> ELSE NonBlankNames(people)
       IN  \E replies \in [1..Len(asked) -> TextReplies] :
             LET names == IF trans.people_en # <<>> THEN trans.people_en
                          ELSE translate_people_list(people, replies)
                 out == [category |-> category,
                         title |-> IF detected_en # None /\ detected_en # Some(<<>>)
                                   THEN detected_en[1] ELSE trans.title_en,
                         comment |-> trans.comment_en,
                         rating |-> rating_en(item),
                         subject_url |-> source_url(item),
                         author |-> IF category = "book" THEN Some(Join(names)) ELSE None,
                         director |-> IF category = "movie" THEN Some(Join(names)) ELSE None]
             IN  /\ t_translated' = Append(t_translated, out)
                 /\ t_names' = [k \in 1..Len(asked) |-> replies[k].kind = "text"]
    /\ t_pc' = "save"
    /\ UNCHANGED <<NotTranslate, t_items, t_i, t_trans, t_resp, t_log, t_saved>>

\* translate_all with the write of lines 189-192 left out of the loop
translate_all_save_skipped ==
    /\ t_pc = "save"
    /\ t_pc' = "sleep"
    /\ UNCHANGED <<NotTranslate, t_items, t_i, t_trans, t_resp, t_log, t_names, t_translated, t_saved>>

\* translate_all, lines 189-192: write the collection
translate_all_save ==
    /\ t_pc = "save"
    /\ t_saved' = t_translated
    /\ t_pc' = "sleep"
    /\ UNCHANGED <<NotTranslate, t_items, t_i, t_trans, t_resp, t_log, t_names, t_translated>>

\* translate_all, line 193: time.sleep(0.5), then on to the next item
translate_all_sleep ==
    /\ t_pc = "sleep"
    /\ t_i' = t_i + 1
    /\ t_trans' = NoDict /\ t_resp' = NoReply /\ t_log' = <<>> /\ t_names' = <<>>
    /\ t_pc' = "translate"
    /\ UNCHANGED <<NotTranslate, t_items, t_translated, t_saved>>

\* translate_all, line 195
translate_all_return ==
    /\ t_pc = "translate" /\ t_i = Len(t_items)
    /\ t_pc' = "done"
    /\ UNCHANGED <<NotTranslate, t_items, t_i, t_trans, t_resp, t_log, t_names, t_translated, t_saved>>

TransNext ==
    \/ translate_all_translate \/ translate_all_append \/ translate_all_save
    \/ translate_all_sleep \/ translate_all_return

----------------------------------------------------------------------------
\* Specifications: one per program

\* the Publisher, import_data.py
Init == PubInit /\ SelIdle /\ RatingIdle /\ ResolveIdle /\ CrawlIdle /\ TransIdle /\ EnrichIdle /\ ParseIdle
Next == PubNext
Spec == Init /\ [][Next]_vars

\* The Publisher as a sequential program that keeps running: every step but
\* the operator's (input() waits for a person) is taken when it can be; page
\* operations end by their timeouts.
PublisherProgram ==
    \/ process_goodreads_launch \/ process_imdb_launch \/ prompt_login
    \/ process_goodreads_item \/ open_goodreads_editor \/ post_goodreads_set_rating
    \/ post_goodreads_set_comment \/ post_goodreads_submit \/ process_goodreads_close
    \/ process_imdb_item \/ post_imdb_goto \/ post_imdb_set_rating
    \/ post_imdb_set_comment \/ post_imdb_submit \/ process_imdb_close
PublisherFairSpec == Init /\ [][Next]_vars /\ WF_vars(PublisherProgram)

\* the candidate loops
SelectorInit == SelInit /\ PubIdle /\ RatingIdle /\ ResolveIdle /\ CrawlIdle /\ TransIdle /\ EnrichIdle /\ ParseIdle
SelectorNext == SelNext
SelectorSpec == SelectorInit /\ [][SelectorNext]_vars

\* the rating conversions
ConvertInit == RatingInit /\ PubIdle /\ SelIdle /\ ResolveIdle /\ CrawlIdle /\ TransIdle /\ EnrichIdle /\ ParseIdle
ConvertNext == RatingNext
ConvertSpec == ConvertInit /\ [][ConvertNext]_vars

\* the Resolver, search.py
ResolverInit == ResolveInit /\ PubIdle /\ SelIdle /\ RatingIdle /\ CrawlIdle /\ TransIdle /\ EnrichIdle /\ ParseIdle
ResolverNext == ResolveNext
ResolverSpec == ResolverInit /\ [][ResolverNext]_vars

\* the Extractor's pagination, douban_crawl.py; the loop is sequential code
\* that runs on until it returns, hence the weak fairness
CrawlerInit == CrawlInit /\ PubIdle /\ SelIdle /\ RatingIdle /\ ResolveIdle /\ TransIdle /\ EnrichIdle /\ ParseIdle
CrawlerNext == CrawlNext
CrawlerSpec == CrawlerInit /\ [][CrawlerNext]_vars /\ WF_vars(CrawlerNext)

\* the Extractor's detail pass, douban_crawl.py
EnricherInit == EnrichInit /\ PubIdle /\ SelIdle /\ RatingIdle /\ ResolveIdle /\ CrawlIdle /\ TransIdle /\ ParseIdle
EnricherNext == EnrichNext
EnricherSpec == EnricherInit /\ [][EnricherNext]_vars

\* the Extractor's parsing functions, douban_crawl.py
ParserInit == ParseInit /\ PubIdle /\ SelIdle /\ RatingIdle /\ ResolveIdle /\ CrawlIdle /\ TransIdle /\ EnrichIdle
ParserNext == ParseNext
ParserSpec == ParserInit /\ [][ParserNext]_vars

\* the Translator, douban_translate.py
TranslatorInit == TransInit /\ PubIdle /\ SelIdle /\ RatingIdle /\ ResolveIdle /\ CrawlIdle /\ EnrichIdle /\ ParseIdle
TranslatorNext == TransNext
TranslatorSpec == TranslatorInit /\ [][TranslatorNext]_vars

----------------------------------------------------------------------------
\* Properties of the Publisher (Spec)

Blank(t) == \A k \in 1..Len(t) : t[k] \in Whitespace

\* the comment text of a record: comment, else comment_en
CommentOf(item) == IF item.comment # <<>> THEN item.comment ELSE item.comment_en

HasEntry(item) == item.subject_url \in DOMAIN p_mapping

Skipped == {"skippedNoMapping", "skippedNoComment"}

\* the item taken last is over
Over == p_i > 0 /\ Len(p_outcome) = p_i

Attempted(step) == \E k \in 1..Len(p_trace) : p_trace[k].step = step
Did(step, ok) == \E k \in 1..Len(p_trace) : p_trace[k] = Op(step, ok)
StepsOf(trace) == [k \in 1..Len(trace) |-> trace[k].step]

\* C1: a record without a mapping entry ends skipped(noMapping), a record with
\* an entry and a comment that is empty after trimming ends
\* skipped(noComment), and no page operation is performed for either.
C1_SkipWithoutPageOperation ==
    /\ \A k \in 1..Len(p_outcome) :
         /\ ~HasEntry(p_items[k]) => p_outcome[k] = "skippedNoMapping"
         /\ HasEntry(p_items[k]) /\ Blank(CommentOf(p_items[k]))
              => p_outcome[k] = "skippedNoComment"
    /\ p_i > 0 /\ (~HasEntry(p_items[p_i]) \/ Blank(CommentOf(p_items[p_i])))
         => p_trace = <<>> /\ Over

C1_Witness ==
    /\ p_pc = "done" /\ Len(p_outcome) = 2
    /\ p_outcome[1] = "skippedNoComment" /\ p_outcome[2] = "skippedNoMapping"
    /\ p_items[1].comment # <<>> /\ p_trace = <<>>

\* C2: a failed SET_RATING does not stop the sequence; a failed SET_COMMENT
\* ends the pair in failed with no SUBMIT attempted; a failed SUBMIT ends it in
\* failed; a pair is posted only if SET_COMMENT and SUBMIT both found an
\* element.
C2_MandatoryAndOptionalSteps ==
    /\ Did("SET_RATING", FALSE)
         => \/ p_pc \in {"gr_comment", "imdb_comment"}
            \/ Attempted("SET_COMMENT")
    /\ Did("SET_RATING", FALSE) /\ Did("SET_COMMENT", TRUE)
         => p_pc \in {"gr_submit", "imdb_submit"} \/ Attempted("SUBMIT")
    /\ Did("SET_COMMENT", FALSE)
         => Over /\ p_outcome[p_i] = "failed" /\ ~Attempted("SUBMIT")
    /\ Did("SUBMIT", FALSE) => Over /\ p_outcome[p_i] = "failed"
    /\ Over /\ p_outcome[p_i] = "posted"
         => Did("SET_COMMENT", TRUE) /\ Did("SUBMIT", TRUE)

C2_Witness ==
    /\ Over /\ p_outcome[p_i] = "posted" /\ Did("SET_RATING", FALSE)
    /\ p_i = 2 /\ p_outcome[1] = "failed"

\* C3: on both destinations a posted pair performed exactly NAVIGATE,
\* OPEN_EDITOR, SET_RATING (when the record has a rating), SET_COMMENT, SUBMIT,
\* in this order.
C3_PostedSequence ==
    Over /\ p_outcome[p_i] = "posted"
      => StepsOf(p_trace) =
           <<"NAVIGATE", "OPEN_EDITOR">>
           \o (IF p_items[p_i].rating # None THEN <<"SET_RATING">> ELSE <<>>)
           \o <<"SET_COMMENT", "SUBMIT">>

----------------------------------------------------------------------------
\* Properties of the candidate loops (SelectorSpec)

\* C4: the candidates are tried in list order from the first one, the call
\* succeeds at the first candidate the page accepts and tries none after it,
\* and it fails only after trying every candidate.
C4_FirstAvailable ==
    s_result # None =>
      LET r == s_result[1]
          n == Len(s_selectors)
      IN  /\ \A k \in 1..Len(r.tried) : r.tried[k] = k
          /\ r.ok => /\ Len(r.tried) >= 1
                     /\ r.tried[Len(r.tried)] \in s_matching
                     /\ \A k \in 1..(Len(r.tried) - 1) : r.tried[k] \notin s_matching
          /\ ~r.ok => Len(r.tried) = n /\ s_matching = {}
          /\ s_matching # {} => r.ok

\* only the third of four candidates matches: three attempts, success
C4_Witness ==
    /\ s_result # None /\ Len(s_selectors) = 4 /\ s_matching = {3}
    /\ s_result[1] = [ok |-> TRUE, tried |-> <<1, 2, 3>>]

----------------------------------------------------------------------------
\* Properties of the rating conversions (ConvertSpec)

Clamp(r, lo, hi) == IF r < lo THEN lo ELSE IF r > hi THEN hi ELSE r

\* C5: an integer rating r converts to clamp(r,1,5) for Goodreads and to
\* clamp(r,1,5)*2 for IMDb, so the results lie in 1..5 and in {2,4,6,8,10};
\* an absent rating stays absent.
C5_RatingConversion ==
    /\ r_fn \in {"goodreads", "imdb"} /\ r_in = None => r_out = None
    /\ r_fn = "goodreads" /\ r_in # None
         => r_out = Some(Clamp(r_in[1], 1, 5)) /\ r_out[1] \in 1..5
    /\ r_fn = "imdb" /\ r_in # None
         => r_out = Some(Clamp(r_in[1], 1, 5) * 2) /\ r_out[1] \in {2, 4, 6, 8, 10}

\* source 7 is out of range: clamped to 5, IMDb 10
C5_Witness == r_fn = "imdb" /\ r_in = Some(7) /\ r_out = Some(10)

----------------------------------------------------------------------------
\* Properties of the Resolver (ResolverSpec)

Searched(k) == \E j \in 1..Len(v_log) : v_log[j] = Ev("search", k)

\* C6: with overwrite off, a record whose subject_url has an entry in the
\* existing mapping issues no search request, and the mapping built keeps the
\* existing target for it.
C6_NoRequeryWithoutOverwrite ==
    ~v_overwrite /\ v_pc \in {"loop", "done"} =>
      \A k \in 1..v_i :
        LET src == v_items[k].subject_url
        IN  src \in DOMAIN v_existing
              => /\ ~Searched(k)
                 /\ src \in DOMAIN v_mapping
                 /\ v_mapping[src] = v_existing[src]

\* a run without overwrite that skipped a mapped record and searched and
\* stored another one
C6_Witness ==
    /\ ~v_overwrite /\ v_pc = "done" /\ Len(v_items) = 2
    /\ v_items[1].subject_url \in DOMAIN v_existing
    /\ Searched(2)
    /\ v_items[2].subject_url \in DOMAIN v_mapping

----------------------------------------------------------------------------
\* Properties of the Extractor's pagination (CrawlerSpec)

IsFetch(e) == e.ev = "fetch"
Fetches == SelectSeq(c_log, IsFetch)

\* the requests go out at offsets 0, per_page, 2*per_page, ..., and only the
\* last of them may have failed or come back without items; after such a
\* request the function is done
CrawlStopsAtEnd ==
    /\ \A j \in 1..Len(Fetches) : Fetches[j].start = (j - 1) * PerPage
    /\ \A j \in 1..(Len(Fetches) - 1) : Fetches[j].result = "items"
    /\ Len(Fetches) > 0 /\ Fetches[Len(Fetches)].result \in {"empty", "failed"}
         => c_pc = "done"

\* C7: crawl_collect_list terminates; it requests the offsets in increasing
\* order and requests nothing after the first empty page or failed fetch.
C7_PaginationTerminates == []CrawlStopsAtEnd /\ <>(c_pc = "done")

\* two pages of items, then an empty page ends the crawl
C7_Witness ==
    /\ c_pc = "done" /\ Len(Fetches) = 3
    /\ Fetches[3].result = "empty" /\ Fetches[3].start = 2 * PerPage
    /\ Len(c_all_items) >= 2

----------------------------------------------------------------------------
\* Properties of the Translator (TranslatorSpec)

\* translate_all has just appended the record of the item in work
Appends == t_pc = "append" /\ t_pc' = "save"
Appended == t_translated'[Len(t_translated')]

PeopleField(out) == IF out.category = "book" THEN out.author[1] ELSE out.director[1]

StructuredFailed == structured(t_resp).raised
CallFailed(name) == \E k \in 1..Len(t_log) : t_log[k].call = name /\ ~t_log[k].ok
AliasOf(item) ==
    IF item.category = "movie" THEN detect_english_from_title(Strip(item.title_zh)) ELSE None

\* C8: a record whose source comment is empty after trimming gets the empty
\* comment, whatever the completion service answers.
C8_EmptyCommentStaysEmpty ==
    \A k \in 1..Len(t_translated) :
      Blank(t_items[k].comment_zh) => t_translated[k].comment = <<>>

\* translate_all does not raise, and emits one record per item, in order
OneRecordPerItem ==
    /\ t_pc # "raised"
    /\ Len(t_translated) = t_i + (IF t_pc \in {"save", "sleep"} THEN 1 ELSE 0)
    /\ \A k \in 1..Len(t_translated) : t_translated[k].subject_url = t_items[k].subject_url
    /\ t_pc = "done" => Len(t_translated) = Len(t_items)

\* a title (not taken from an alias) or a comment whose translation failed
\* comes out empty
FailedTextsAreEmpty ==
    Appends /\ StructuredFailed =>
      /\ CallFailed("title") /\ AliasOf(t_items[t_i + 1]) = None => Appended.title = <<>>
      /\ CallFailed("comment") \/ CallFailed("title") => Appended.comment = <<>>

\* C9 as stated: translate_all never raises and emits exactly one record per
\* item, and every field whose calls failed is the empty string, the people
\* field included.
C9_FailedFieldsAreEmpty ==
    /\ []OneRecordPerItem
    /\ [][FailedTextsAreEmpty]_vars
    /\ [][Appends /\ (\E k \in 1..Len(t_names') : ~t_names'[k])
            => PeopleField(Appended) = <<>>]_vars

\* C9 as amended: translate_all never raises and emits exactly one record per
\* item; a title (not taken from an alias) or comment whose translation
\* failed is the empty string; when the per-name calls fail the people field
\* holds the source names.
C9_NeverRaisesAndDegrades ==
    /\ []OneRecordPerItem
    /\ [][FailedTextsAreEmpty]_vars
    /\ [][Appends /\ t_names' # <<>> /\ (\A k \in 1..Len(t_names') : ~t_names'[k])
            => PeopleField(Appended) = Join(NonBlankNames(PeopleOf(t_items[t_i + 1])))]_vars

\* the second record of a run: the structured call and the title fallback
\* failed, and so did the call for the first of its two names
C9_Witness ==
    /\ t_pc = "save" /\ Len(t_translated) = 2
    /\ StructuredFailed /\ CallFailed("title")
    /\ t_names = <<FALSE, TRUE>>
    /\ t_translated[2].title = <<>> /\ t_translated[2].comment = <<>>
    /\ t_translated[2].author = Some(<<"#6", " ", "/", " ", "E">>)

\* a reply that is not the expected shape
NonConforming(reply) ==
    \/ reply.kind \in {"error", "no_content", "not_json", "not_object"}
    \/ /\ reply.kind = "object"
       /\ \/ reply.title_en.j = "absent"
          \/ reply.comment_en.j = "absent"
          \/ reply.people_en.j = "absent"

\* C10: when the structured call fails or its reply is not the expected
\* shape, the fallback runs: title and comment are each translated as free
\* text, the people of this path are the empty list, and nothing is raised
\* out of the translator.
C10_FallbackOnNonConforming ==
    t_pc \in {"append", "raised"} /\ NonConforming(t_resp) =>
      /\ t_pc = "append"
      /\ \E k \in 1..Len(t_log) : t_log[k].call = "title"
      /\ \E k \in 1..Len(t_log) : t_log[k].call = "comment"
      /\ t_trans.value.people_en = <<>>

\* the text the service gives for a name when the call succeeds
NameReply == Strip((CHOOSE r \in TextReplies : r.kind = "text").text)

\* the source names that are not blank, trimmed, in source order
RECURSIVE SourceNames(_)
SourceNames(people) ==
    IF people = <<>> THEN <<>>
    ELSE (IF Blank(Head(people)) THEN <<>> ELSE <<Strip(Head(people))>>)
         \o SourceNames(Tail(people))

\* C11: when the people list is empty after the structured and fallback
\* paths, each non-blank source name gets its own call, in source order; the
\* people field has one entry per such name, the translation where the call
\* succeeded and the source name itself where it failed, and the record is
\* appended all the same.
C11_PerNameFallback ==
    [][Appends /\ t_trans.value.people_en = <<>> =>
         LET source == SourceNames(PeopleOf(t_items[t_i + 1]))
             expected == [k \in 1..Len(source) |->
                            IF t_names'[k] THEN NameReply ELSE source[k]]
         IN  /\ Len(t_names') = Len(source)
             /\ PeopleField(Appended) = Join(expected)
             /\ Len(t_translated') = Len(t_translated) + 1]_vars

\* the record with two names: the call for the first succeeded, the one for
\* the second failed
C11_Witness ==
    /\ t_pc = "save" /\ t_trans.value.people_en = <<>>
    /\ t_names = <<TRUE, FALSE>>
    /\ PeopleField(t_translated[Len(t_translated)]) = <<"E", " ", "/", " ", "#7">>

\* C12: a record whose source people list (authors of a book, directors of a
\* movie) is empty gets an empty people field, whatever the completion
\* service answers.
C12_EmptyPeopleStayEmpty ==
    \A k \in 1..Len(t_translated) :
      PeopleOf(t_items[k]) = <<>> => PeopleField(t_translated[k]) = <<>>

\* the item translate_all is working on, once its title and comment went
\* through translate_title_and_comment
InWork == t_pc \in {"append", "raised", "save", "sleep"}

\* C13: a movie whose source title embeds a Latin alias between slashes or
\* pipes gets that alias as its title, whatever the completion service
\* answers, and no call for the title goes out to the service; a book's
\* title is the translation, alias or not.
C13_AliasBypassesInference ==
    /\ \A k \in 1..Len(t_translated) :
         t_items[k].category = "movie" /\ AliasOf(t_items[k]) # None =>
           t_translated[k].title = AliasOf(t_items[k])[1]
    /\ InWork /\ t_items[t_i + 1].category = "movie" /\ AliasOf(t_items[t_i + 1]) # None =>
         ~ \E k \in 1..Len(t_log) : t_log[k].call = "title" /\ t_log[k].sent
    /\ t_pc \in {"save", "sleep"} /\ t_items[t_i + 1].category = "book" =>
         t_translated[t_i + 1].title = t_trans.value.title_en

\* C14: the record of an item is appended and the whole collection written
\* to the save path before any call for the next item goes out; so wherever
\* the run stops, the written collection holds every computed record but, at
\* most, the one in flight.
C14_SavedBeforeNextCall ==
    /\ t_pc \in {"translate", "append", "done"} =>
         t_saved = t_translated /\ Len(t_saved) = t_i
    /\ Len(t_saved) <= Len(t_translated)
    /\ Len(t_translated) <= Len(t_saved) + 1
    /\ \A k \in 1..Len(t_saved) : t_saved[k] = t_translated[k]

\* the calls for the second item have begun, the first record is written
C14_Witness ==
    /\ t_pc = "append" /\ t_i = 1
    /\ Len(t_saved) = 1 /\ t_saved[1].subject_url = t_items[1].subject_url

\* C15: a translated record has the category, the subject_url and the rating
\* of its raw record, an absent rating staying absent, whatever the
\* completion service answers.
C15_CarriedThrough ==
    \A k \in 1..Len(t_translated) :
      /\ t_translated[k].category = t_items[k].category
      /\ t_translated[k].subject_url = t_items[k].subject_url
      /\ t_translated[k].rating = t_items[k].rating

\* a record without rating and one with a rating, both translated from an
\* object reply
C15_Witness ==
    /\ t_pc = "save" /\ Len(t_translated) = 2 /\ t_resp.kind = "object"
    /\ t_items[1].rating = None /\ t_translated[1].rating = None
    /\ t_items[2].rating = Some(5) /\ t_translated[2].rating = Some(5)
    /\ t_translated[2].subject_url = "d2" /\ t_translated[2].category = "movie"

----------------------------------------------------------------------------
\* Further properties of the Extractor (CrawlerSpec)

\* C16: the list crawl_collect_list returns has a non-empty subject_url in
\* every record, and no subject_url twice.
C16_UrlsNonEmptyAndUnique ==
    c_pc = "done" =>
      /\ \A k \in 1..Len(c_all_items) : c_all_items[k].subject_url # ""
      /\ \A j, k \in 1..Len(c_all_items) :
           j # k => c_all_items[j].subject_url # c_all_items[k].subject_url

----------------------------------------------------------------------------
\* Further properties of the Publisher (Spec)

\* the submit clicks of the run for the records of one subject_url (the
\* mappings of the model send different subject_urls to different targets)
SubmitsFor(subject_url) ==
    IF subject_url \in DOMAIN p_mapping THEN p_submits[p_mapping[subject_url]] ELSE 0

\* C17: within a run, on its destination, at most one review is submitted
\* for a subject_url, also when the list holds the subject_url twice.
C17_NoDoublePosting ==
    \A u \in SubjectUrls : SubmitsFor(u) <= 1

\* a record ends in failed: the loop goes on with the browser open
FailureIsolated ==
    p_outcome' = Append(p_outcome, "failed") =>
      p_pc' = "loop" /\ p_i' = p_i /\ p_browser' = "open"

\* every record taken so far has been evaluated, and attempted exactly when
\* it has a mapping and a comment, whatever became of the records before it
EveryRecordEvaluated ==
    /\ p_pc = "loop" => Len(p_outcome) = p_i
    /\ \A k \in 1..Len(p_outcome) :
         p_outcome[k] \in {"posted", "failed"}
           <=> HasEntry(p_items[k]) /\ ~Blank(CommentOf(p_items[k]))
    /\ p_pc = "done" => Len(p_outcome) = Len(p_items) /\ p_browser = "closed"

\* C18: a record that ends in failed does not abort the batch; every later
\* record is evaluated, and attempted when it has a mapping and a comment;
\* the loop reaches its end and the browser is closed.
C18_FailureIsolation ==
    /\ [][FailureIsolated]_vars
    /\ []EveryRecordEvaluated
    /\ (p_pc = "loop") ~> (p_pc = "done" /\ p_browser = "closed")

\* the first record failed and the second was posted all the same
C18_Witness ==
    /\ p_pc = "done" /\ p_browser = "closed"
    /\ p_outcome = <<"failed", "posted">>

HomeOpened == \E k \in 1..Len(p_trace) : p_trace[k].step = "HOME"

\* an automated action for a record (navigation to its target, click, fill)
\* has been performed
RecordActionDone == \E k \in 1..Len(p_trace) : p_trace[k].step # "HOME"

\* C19 as stated: in every configuration the Publisher opens the home page
\* and waits, without timeout, for the operator's signal, and performs no
\* action for a record before the signal has come.
C19_LoginGate ==
    /\ [][p_pc = "login" => HomeOpened' /\ p_pc' = "input"]_vars
    /\ [][p_pc = "input" => p_signal' /\ p_pc' = "loop"]_vars
    /\ [](RecordActionDone => p_signal)

\* C19 as amended: with WAIT_FOR_LOGIN on, the Publisher opens the home page
\* and waits, without timeout, for the operator's signal, and performs no
\* action for a record before the signal has come; with WAIT_FOR_LOGIN off it
\* neither opens the home page nor waits.
C19_LoginGateWhenConfigured ==
    /\ [][p_pc = "login" /\ p_wait => HomeOpened' /\ p_pc' = "input"]_vars
    /\ [][p_pc = "login" /\ ~p_wait => ~HomeOpened' /\ p_pc' = "loop"]_vars
    /\ [][p_pc = "input" => p_signal' /\ p_pc' = "loop"]_vars
    /\ [](p_wait /\ (RecordActionDone \/ p_i > 0) => p_signal)
    /\ [](~p_wait => ~p_signal /\ p_pc # "input")

\* the signal has come and the first record's page is being opened
C19_Witness ==
    /\ p_wait /\ p_signal /\ p_i = 1
    /\ p_trace # <<>> /\ p_trace[1].step = "NAVIGATE"

----------------------------------------------------------------------------
\* Delays between requests (EnricherSpec, and the logs of the other programs)

\* between any two requests of a log there is a sleep
Spaced(log) ==
    \A j, k \in 1..Len(log) :
      j < k /\ log[j].ev # "sleep" /\ log[k].ev # "sleep"
        => \E m \in (j + 1)..(k - 1) : log[m].ev = "sleep"

\* the completion calls made so far for the item in work, none of them
\* followed by a sleep before the record is saved: the structured call, the
\* calls of the fallback path that went out, the per-name calls
TranslationCalls ==
    1 + Cardinality({k \in 1..Len(t_log) : t_log[k].sent}) + Len(t_names)

\* C20: between any two consecutive listing-page fetches, detail-page
\* fetches (also after one that failed), translation calls and search calls
\* there is a sleep.
C20_DelayBetweenRequests ==
    /\ Spaced(c_log)
    /\ Spaced(e_log)
    /\ Spaced(v_log)
    /\ InWork => TranslationCalls <= 1

----------------------------------------------------------------------------
\* Properties of the Extractor's parsing functions (ParserSpec)

\* the separator set as the specification gives it: full-width and
\* half-width slash, comma, Chinese comma (either of the two, the full-width
\* and the ideographic one), full-width and half-width semicolon
StatedSeparators ==
    {"fullwidth/", "/", ",", "fullwidth,", "ideographic,", "fullwidth;", ";"}

\* the pieces of a text between the characters of seps, in order
RECURSIVE Segments(_, _, _)
Segments(text, seps, part) ==
    IF text = <<>> THEN <<part>>
    ELSE IF Head(text) \in seps THEN <<part>> \o Segments(Tail(text), seps, <<>>)
    ELSE Segments(Tail(text), seps, Append(part, Head(text)))

\* those of a list of texts that are not blank, trimmed, in order
RECURSIVE NonEmptyTrimmed(_)
NonEmptyTrimmed(parts) ==
    IF parts = <<>> THEN <<>>
    ELSE (IF Blank(Head(parts)) THEN <<>> ELSE <<Strip(Head(parts))>>)
         \o NonEmptyTrimmed(Tail(parts))

\* C21: split_people returns exactly the non-empty trimmed segments of its
\* input between the characters of the separator set (full-width slash,
\* half-width slash, comma, Chinese comma, full-width and half-width
\* semicolon), in order, and no name it returns holds a separator.
C21_SplitPeople ==
    f_fn = "split_people" /\ f_out # None =>
      /\ f_out[1] = NonEmptyTrimmed(Segments(f_arg, StatedSeparators, <<>>))
      /\ \A k \in 1..Len(f_out[1]) : \A j \in 1..Len(f_out[1][k]) :
           f_out[1][k][j] \notin StatedSeparators

\* the first token of a class list that matches the rating pattern
FirstMatching(classes) ==
    IF \E k \in 1..Len(classes) : rating_in_token(classes[k]) # None
    THEN rating_in_token(classes[CHOOSE k \in 1..Len(classes) :
           /\ rating_in_token(classes[k]) # None
           /\ \A j \in 1..(k - 1) : rating_in_token(classes[j]) = None])
    ELSE None

\* the innermost rating-bearing element below the item
Innermost(item) ==
    IF \E k \in 1..Len(item.inner) : RatingBearing(item.inner[k])
    THEN Some(item.inner[CHOOSE k \in 1..Len(item.inner) :
           /\ RatingBearing(item.inner[k])
           /\ \A j \in (k + 1)..Len(item.inner) : ~RatingBearing(item.inner[j])])
    ELSE None

\* C22: the rating of a listing item is the integer of the first matching
\* class token of the innermost rating-bearing element; when that yields
\* nothing, of the first matching token of the item's own classes; null when
\* no token of either list matches.
C22_RatingExtraction ==
    f_fn = "rating" /\ f_out # None =>
      LET inner == IF Innermost(f_arg) # None THEN FirstMatching(Innermost(f_arg)[1]) ELSE None
      IN  f_out[1] = IF inner # None THEN inner ELSE FirstMatching(f_arg.own)

\* the text after the first director label of an info text, the blanks
\* behind the label left out; None without a label
AfterLabel(text) ==
    IF \E i \in 1..Len(text) : text[i] = "label:"
    THEN LET i == CHOOSE i \in 1..Len(text) :
                    text[i] = "label:" /\ \A j \in 1..(i - 1) : text[j] # "label:"
         IN  Some(LStrip(SubSeq(text, i + 1, Len(text))))
    ELSE None

\* a text up to the first stop token or slash in it
CutAtStop(text) ==
    IF \E i \in 1..Len(text) : text[i] \in StopTokens \cup {"/"}
    THEN SubSeq(text, 1, (CHOOSE i \in 1..Len(text) :
                            /\ text[i] \in StopTokens \cup {"/"}
                            /\ \A j \in 1..(i - 1) : text[j] \notin StopTokens \cup {"/"}) - 1)
    ELSE text

\* person-splitting as C21 states it
PersonSplit(text) == NonEmptyTrimmed(Segments(text, StatedSeparators, <<>>))

\* C23: extract_directors_from_detail returns the texts of the tagged
\* director anchors as they are when there are any, without consulting the
\* info block; otherwise the text after the director label of the info
\* block, cut at the nearest stop token or first slash and person-split;
\* and the empty list when neither yields a name.
C23_DirectorTiers ==
    f_fn = "directors" /\ f_out # None =>
      f_out[1] = IF f_arg.directed_by # <<>> THEN f_arg.directed_by
                 ELSE IF f_arg.info = None THEN <<>>
                 ELSE IF AfterLabel(f_arg.info[1]) = None THEN <<>>
                 ELSE PersonSplit(CutAtStop(AfterLabel(f_arg.info[1])[1]))

----------------------------------------------------------------------------
\* The editor step of the Publisher (Spec)

\* C24: when none of the editor-opening candidates can be clicked, the pair
\* ends failed, and neither SET_COMMENT nor SUBMIT is attempted for it.
C24_EditorNotFoundFails ==
    Did("OPEN_EDITOR", FALSE) =>
      /\ ~Attempted("SET_COMMENT")
      /\ ~Attempted("SUBMIT")
      /\ Over => p_outcome[p_i] = "failed"

----------------------------------------------------------------------------
\* The people list of the Translator (TranslatorSpec)

\* the number of names joined into the people field of the record appended
\* last: those of the reply when it has any, else one per per-name call
TranslatedPeopleCount ==
    IF t_trans.value.people_en # <<>> THEN Len(t_trans.value.people_en) ELSE Len(t_names)

\* C25: when the structured call succeeds, the translated people list has
\* the length of the source people list (blank source names not counted),
\* whatever the reply holds.
C25_PeopleLengthKept ==
    t_pc \in {"save", "sleep"} /\ ~StructuredFailed =>
      TranslatedPeopleCount = Len(SourceNames(PeopleOf(t_items[t_i + 1])))

----------------------------------------------------------------------------
\* The mapping over runs of the Resolver (ResolverSpec)

\* every entry of the mapping `before` is in the mapping `after`, with a
\* target that is not empty
Keeps(before, after) ==
    \A u \in DOMAIN before : u \in DOMAIN after /\ after[u] # ""

\* C26: over any sequence of runs, with either overwrite setting, every
\* subject_url of the existing mapping is in the returned mapping with a
\* non-empty target; a search that fails or finds nothing neither removes
\* nor blanks an entry (the old target stays, also with overwrite set); and
\* the mapping passed in as existing is not changed by the run.
C26_MappingCumulative ==
    /\ [](v_pc \in {"loop", "done"} => Keeps(v_existing, v_mapping) /\ Keeps(v_first, v_mapping))
    /\ [](Keeps(v_first, v_existing))
    /\ [][\A u \in DOMAIN v_mapping :
            /\ u \in DOMAIN v_mapping'
            /\ v_mapping'[u] # v_mapping[u] => v_overwrite /\ v_mapping'[u] # ""]_vars
    /\ [][v_pc # "done" => v_existing' = v_existing]_vars

\* a later run with overwrite set: the search for d1 was made and gave
\* nothing, and d1 has the target it had
C26_Witness ==
    /\ v_pc = "done" /\ v_overwrite
    /\ v_existing # v_first
    /\ Len(v_items) >= 1 /\ v_items[1].subject_url = "d1" /\ Searched(1)
    /\ "d1" \in DOMAIN v_existing /\ v_mapping["d1"] = v_existing["d1"]

====
